---- MODULE Spec2Model ----
(***************************************************************************)
(* Bencode codec of mescal: the recursive-descent decoder of               *)
(* src/src/decoder.rs run as a machine with an explicit call stack over a  *)
(* peekable byte cursor, and the encoder of src/src/encoder.rs as          *)
(* recursive operators.                                                    *)
(*                                                                         *)
(* Bytes are the integers 0..255.  An i64 is kept as a sign and a decimal  *)
(* magnitude (a digit sequence without leading zeros), so that the 64-bit  *)
(* range check of str::parse::<i64> is exact.                              *)
(***************************************************************************)
EXTENDS Integers, Sequences, FiniteSets, TLC

VARIABLES input, pos, stack, ret, round, decoded, steps, source, cur, other, solo

vars == <<input, pos, stack, ret, round, decoded, steps, source, cur, other, solo>>

(***************************************************************************)
(* Marker bytes.                                                           *)
(***************************************************************************)
M_DICT == 100
M_INT == 105
M_LIST == 108
M_END == 101
M_COLON == 58
M_0 == 48
M_9 == 57
M_DASH == 45
M_PLUS == 43

(***************************************************************************)
(* Result<T, BencodeError>, Option and BencodeError.                       *)
(***************************************************************************)
NoError == [kind |-> "", msg |-> ""]

Error(kind, msg) == [kind |-> kind, msg |-> msg]

Ok(v) == [k |-> "Ok", v |-> v, e |-> NoError]

Err(e) == [k |-> "Err", v |-> <<>>, e |-> e]

Pending == [k |-> "None", v |-> <<>>, e |-> NoError]

FileRead(msg) == Error("FileRead", msg)
UnrecognizedByte(b) == Error("UnrecognizedByte", "unrecognized byte: " \o ToString(b))
UnexpectedEndMarker == Error("UnexpectedEndMarker", "")
BytestreamEnded == Error("BytestreamEnded", "")
IntParseAscii == Error("IntParseAscii", "")
IntParseInt(msg) == Error("IntParseInt", msg)
IntParseLeadingZero == Error("IntParseLeadingZero", "")
IntParseNegativeZero == Error("IntParseNegativeZero", "")
StrParseLeadingZero == Error("StrParseLeadingZero", "")
StrLenInvalidByte == Error("StrLenInvalidByte", "")
DictKeyParse == Error("DictKeyParse", "")

(***************************************************************************)
(* BencodeItem: String(ByteString), Int(i64), List(Vec<BencodeItem>),      *)
(* Dict(Vec<(String, BencodeItem)>).  A dict pair is <<key bytes, item>>.  *)
(***************************************************************************)
ItemString(s) == [t |-> "String", v |-> s]
ItemInt(i) == [t |-> "Int", v |-> i]
ItemList(l) == [t |-> "List", v |-> l]
ItemDict(d) == [t |-> "Dict", v |-> d]

(***************************************************************************)
(* i64: sign and decimal magnitude.                                        *)
(***************************************************************************)
I64(neg, mag) == [neg |-> neg /\ mag # <<0>>, mag |-> mag]

I64_MAX_MAG == <<9, 2, 2, 3, 3, 7, 2, 0, 3, 6, 8, 5, 4, 7, 7, 5, 8, 0, 7>>
I64_MIN_MAG == <<9, 2, 2, 3, 3, 7, 2, 0, 3, 6, 8, 5, 4, 7, 7, 5, 8, 0, 8>>

RECURSIVE LexLess(_, _)
LexLess(a, b) ==
    IF a = <<>> \/ b = <<>> THEN FALSE
    ELSE IF Head(a) # Head(b) THEN Head(a) < Head(b)
    ELSE LexLess(Tail(a), Tail(b))

MagLess(a, b) == Len(a) < Len(b) \/ (Len(a) = Len(b) /\ LexLess(a, b))

\* a < b on i64
I64Less(a, b) ==
    IF a.neg /\ ~b.neg THEN TRUE
    ELSE IF ~a.neg /\ b.neg THEN FALSE
    ELSE IF a.neg THEN MagLess(b.mag, a.mag)
    ELSE MagLess(a.mag, b.mag)

RECURSIVE NatDigits(_)
NatDigits(n) == IF n < 10 THEN <<n>> ELSE Append(NatDigits(n \div 10), n % 10)

I64FromNat(n) == I64(FALSE, NatDigits(n))

DigitBytes(mag) == [j \in 1..Len(mag) |-> M_0 + mag[j]]

\* usize::to_string
usize_to_string(n) == DigitBytes(NatDigits(n))

\* i64::to_string
i64_to_string(i) == (IF i.neg THEN <<M_DASH>> ELSE <<>>) \o DigitBytes(i.mag)

IsDigit(b) == b >= M_0 /\ b <= M_9

(***************************************************************************)
(* std::str::from_utf8: whether a byte sequence is well-formed UTF-8.      *)
(***************************************************************************)
IsCont(b) == b >= 128 /\ b <= 191

RECURSIVE Utf8Valid(_)
Utf8Valid(s) ==
    IF s = <<>> THEN TRUE
    ELSE LET b == s[1]
             n == Len(s)
         IN  IF b < 128 THEN Utf8Valid(Tail(s))
             ELSE IF b >= 194 /\ b <= 223
                  THEN n >= 2 /\ IsCont(s[2]) /\ Utf8Valid(SubSeq(s, 3, n))
             ELSE IF b >= 224 /\ b <= 239
                  THEN /\ n >= 3
                       /\ IsCont(s[2]) /\ IsCont(s[3])
                       /\ (b = 224 => s[2] >= 160)
                       /\ (b = 237 => s[2] <= 159)
                       /\ Utf8Valid(SubSeq(s, 4, n))
             ELSE IF b >= 240 /\ b <= 244
                  THEN /\ n >= 4
                       /\ IsCont(s[2]) /\ IsCont(s[3]) /\ IsCont(s[4])
                       /\ (b = 240 => s[2] >= 144)
                       /\ (b = 244 => s[2] <= 143)
                       /\ Utf8Valid(SubSeq(s, 5, n))
             ELSE FALSE

from_utf8(bytes) == IF Utf8Valid(bytes) THEN Ok(bytes) ELSE Err(IntParseAscii)

(***************************************************************************)
(* str::parse::<i64>: an optional '+' or '-', then one or more decimal     *)
(* digits, accumulated left to right with checked multiply and add (sub    *)
(* for a negative number).                                                 *)
(***************************************************************************)
\* the largest magnitude taken to be 2^63 - 1 for either sign
I64LimitSymmetric(neg) == I64_MAX_MAG

\* the largest magnitude: 2^63 for a negative number, 2^63 - 1 otherwise
I64Limit(neg) == IF neg THEN I64_MIN_MAG ELSE I64_MAX_MAG

\* result * 10 (+|-) d, on the magnitude
MagPush(mag, d) == IF mag = <<0>> THEN <<d>> ELSE Append(mag, d)

RECURSIVE ParseDigits(_, _, _)
ParseDigits(digits, neg, mag) ==
    IF digits = <<>> THEN Ok(I64(neg, mag))
    ELSE IF ~IsDigit(Head(digits)) THEN Err("invalid digit found in string")
    ELSE LET m == MagPush(mag, Head(digits) - M_0)
         IN  IF MagLess(I64Limit(neg), m)
             THEN Err(IF neg THEN "number too small to fit in target type"
                             ELSE "number too large to fit in target type")
             ELSE ParseDigits(Tail(digits), neg, m)

parse_i64(s) ==
    IF s = <<>> THEN Err("cannot parse integer from empty string")
    ELSE IF s = <<M_PLUS>> \/ s = <<M_DASH>> THEN Err("invalid digit found in string")
    ELSE IF Head(s) = M_PLUS THEN ParseDigits(Tail(s), FALSE, <<0>>)
    ELSE IF Head(s) = M_DASH THEN ParseDigits(Tail(s), TRUE, <<0>>)
    ELSE ParseDigits(s, FALSE, <<0>>)

ascii_bytes_to_int(bytes) ==
    IF from_utf8(bytes).k = "Ok"
    THEN LET r == parse_i64(bytes)
         IN  IF r.k = "Ok" THEN Ok(r.v) ELSE Err(IntParseInt(r.e))
    ELSE Err(IntParseAscii)

\* the conversion taking any bytes for text
try_from_unchecked(value) == Ok(value)

\* TryFrom<&ByteString> for String
try_from(value) == IF from_utf8(value).k = "Ok" THEN Ok(value) ELSE Err(NoError)

(***************************************************************************)
(* Encoder.                                                                *)
(***************************************************************************)
RECURSIVE as_bytes(_)
RECURSIVE encode_list_items(_)
RECURSIVE encode_dict_pairs(_)

encode_string(s) == usize_to_string(Len(s)) \o <<M_COLON>> \o s

\* the integer written without its sign
encode_int_unsigned(i) == <<M_INT>> \o DigitBytes(i.mag) \o <<M_END>>

encode_int(i) == <<M_INT>> \o i64_to_string(i) \o <<M_END>>

\* the for loop of encode_list
encode_list_items(l) ==
    IF l = <<>> THEN <<>> ELSE as_bytes(Head(l)) \o encode_list_items(Tail(l))

encode_list(l) == <<M_LIST>> \o encode_list_items(l) \o <<M_END>>

\* the for loop of encode_dict
encode_dict_pairs(d) ==
    IF d = <<>> THEN <<>>
    ELSE encode_string(Head(d)[1]) \o as_bytes(Head(d)[2]) \o encode_dict_pairs(Tail(d))

encode_dict(d) == <<M_DICT>> \o encode_dict_pairs(d) \o <<M_END>>

as_bytes(item) ==
    CASE item.t = "String" -> encode_string(item.v)
      [] item.t = "Int" -> encode_int(item.v)
      [] item.t = "List" -> encode_list(item.v)
      [] item.t = "Dict" -> encode_dict(item.v)

(***************************************************************************)
(* The cursor: Peekable<Iter<u8>> over input, pos bytes consumed.          *)
(***************************************************************************)
HasNext == pos < Len(input)

\* peek() = Some(b) at cursor position p
PeekAt(p, b) == p < Len(input) /\ input[p + 1] = b

PeekIs(b) == PeekAt(pos, b)

\* the cursor after next()
Advance == IF HasNext THEN pos + 1 ELSE pos

(***************************************************************************)
(* The call stack.  A frame holds the function, its position and its       *)
(* locals: res (read_dict, read_list), key (read_dict), buff (read_int,    *)
(* len_buff of read_string), str_buff, str_len and i (read_string); and    *)
(* call_pos, where the cursor stood when the frame made its pending call.  *)
(***************************************************************************)
Frame(fn, pc) ==
    [fn |-> fn, pc |-> pc, res |-> <<>>, key |-> <<>>, buff |-> <<>>,
     str_buff |-> <<>>, str_len |-> I64FromNat(0), i |-> 0, call_pos |-> 0]

Top == stack[Len(stack)]

At(fn, pc) == stack # <<>> /\ Top.fn = fn /\ Top.pc = pc

Caller == SubSeq(stack, 1, Len(stack) - 1)

\* return r to the caller
Return(r) == stack' = Caller /\ ret' = r

\* stay in the frame, now f
Goto(f) == stack' = Append(Caller, f) /\ ret' = Pending

\* call callee with the cursor at p from the frame, which waits as f
Call(f, callee, p) ==
    /\ stack' = Append(Append(Caller, [f EXCEPT !.call_pos = p]), callee)
    /\ ret' = Pending

\* what a decode does not touch: the round trip's bookkeeping, the file
\* read by open, and the other call of a pair with its recorded results
outside == <<round, decoded, source, cur, other, solo>>

\* one step of the decode in progress
Tick == steps' = steps + 1

(***************************************************************************)
(* parse_bytes                                                             *)
(***************************************************************************)
\* match b without the M_END arm
MatchByteNoEnd(b) ==
    IF b = M_DICT THEN "dict"
    ELSE IF b = M_INT THEN "int"
    ELSE IF b = M_LIST THEN "list"
    ELSE IF b >= M_0 /\ b <= M_9 THEN "string"
    ELSE "unrecognized"

\* the arms of match b
MatchByte(b) ==
    IF b = M_DICT THEN "dict"
    ELSE IF b = M_INT THEN "int"
    ELSE IF b = M_LIST THEN "list"
    ELSE IF b >= M_0 /\ b <= M_9 THEN "string"
    ELSE IF b = M_END THEN "end"
    ELSE "unrecognized"

ParseBytes ==
    /\ At("parse_bytes", "match")
    /\ IF ~HasNext THEN Return(Err(BytestreamEnded))
       ELSE LET b == input[pos + 1]
                arm == MatchByte(b)
            IN  IF arm = "dict"
                THEN Call([Top EXCEPT !.pc = arm], Frame("read_dict", "enter"), pos)
                ELSE IF arm = "int"
                THEN Call([Top EXCEPT !.pc = arm], Frame("read_int", "enter"), pos)
                ELSE IF arm = "list"
                THEN Call([Top EXCEPT !.pc = arm], Frame("read_list", "enter"), pos)
                ELSE IF arm = "string"
                THEN Call([Top EXCEPT !.pc = arm], Frame("read_string", "len"), pos)
                ELSE IF arm = "end"
                THEN Return(Err(UnexpectedEndMarker))
                ELSE Return(Err(UnrecognizedByte(b)))
    /\ Tick
    /\ UNCHANGED <<input, pos, outside>>

\* Ok(BencodeItem::X(reader(bytes_iter)?))
ParseBytesReturn ==
    /\ stack # <<>> /\ Top.fn = "parse_bytes" /\ Top.pc # "match"
    /\ ret.k # "None"
    /\ IF ret.k = "Err" THEN Return(ret)
       ELSE IF Top.pc = "dict" THEN Return(Ok(ItemDict(ret.v)))
       ELSE IF Top.pc = "int" THEN Return(Ok(ItemInt(ret.v)))
       ELSE IF Top.pc = "list" THEN Return(Ok(ItemList(ret.v)))
       ELSE Return(Ok(ItemString(ret.v)))
    /\ Tick
    /\ UNCHANGED <<input, pos, outside>>

(***************************************************************************)
(* read_dict                                                               *)
(***************************************************************************)
\* consume 'd'; an 'e' next is the empty dict; else enter the loop
ReadDictEnter ==
    /\ At("read_dict", "enter")
    /\ pos' = Advance
    /\ IF PeekAt(Advance, M_END) THEN Return(Ok(Top.res))
       ELSE Call([Top EXCEPT !.pc = "key"], Frame("read_string", "len"), Advance)
    /\ Tick
    /\ UNCHANGED <<input, outside>>

\* String::try_from(&read_string(bytes_iter)?), then the value
ReadDictKey ==
    /\ At("read_dict", "key")
    /\ ret.k # "None"
    /\ IF ret.k = "Err" THEN Return(ret)
       ELSE IF try_from(ret.v).k = "Ok"
       THEN Call([Top EXCEPT !.pc = "value", !.key = try_from(ret.v).v],
                 Frame("parse_bytes", "match"), pos)
       ELSE Return(Err(DictKeyParse))
    /\ Tick
    /\ UNCHANGED <<input, pos, outside>>

\* res.push((key, parse_bytes(bytes_iter)?)); an 'e' next ends the dict
ReadDictValue ==
    /\ At("read_dict", "value")
    /\ ret.k # "None"
    /\ IF ret.k = "Err" THEN Return(ret) /\ pos' = pos
       ELSE LET res == Append(Top.res, <<Top.key, ret.v>>)
            IN  IF PeekIs(M_END)
                THEN pos' = pos + 1 /\ Return(Ok(res))
                ELSE /\ pos' = pos
                     /\ Call([Top EXCEPT !.pc = "key", !.res = res],
                             Frame("read_string", "len"), pos)
    /\ Tick
    /\ UNCHANGED <<input, outside>>

(***************************************************************************)
(* read_list                                                               *)
(***************************************************************************)
\* entering the list with the 'l' left in place
ReadListEnterNoConsume ==
    /\ At("read_list", "enter")
    /\ pos' = pos
    /\ Goto([Top EXCEPT !.pc = "loop"])
    /\ Tick
    /\ UNCHANGED <<input, outside>>

\* consume 'l'
ReadListEnter ==
    /\ At("read_list", "enter")
    /\ pos' = Advance
    /\ Goto([Top EXCEPT !.pc = "loop"])
    /\ Tick
    /\ UNCHANGED <<input, outside>>

ReadListLoop ==
    /\ At("read_list", "loop")
    /\ IF PeekIs(M_END) THEN pos' = pos + 1 /\ Return(Ok(Top.res))
       ELSE IF HasNext
       THEN pos' = pos /\ Call([Top EXCEPT !.pc = "item"], Frame("parse_bytes", "match"), pos)
       ELSE pos' = pos /\ Return(Err(BytestreamEnded))
    /\ Tick
    /\ UNCHANGED <<input, outside>>

\* res.push of an element only when it was decoded, going on after an error
ReadListItemSkipErr ==
    /\ At("read_list", "item")
    /\ ret.k # "None"
    /\ IF ret.k = "Err" THEN Goto([Top EXCEPT !.pc = "loop"])
       ELSE Goto([Top EXCEPT !.pc = "loop", !.res = Append(Top.res, ret.v)])
    /\ Tick
    /\ UNCHANGED <<input, pos, outside>>

\* res.push(parse_bytes(&mut bytes_iter)?)
ReadListItem ==
    /\ At("read_list", "item")
    /\ ret.k # "None"
    /\ IF ret.k = "Err" THEN Return(ret)
       ELSE Goto([Top EXCEPT !.pc = "loop", !.res = Append(Top.res, ret.v)])
    /\ Tick
    /\ UNCHANGED <<input, pos, outside>>

(***************************************************************************)
(* read_int                                                                *)
(***************************************************************************)
\* consume 'i'
ReadIntEnter ==
    /\ At("read_int", "enter")
    /\ pos' = Advance
    /\ Goto([Top EXCEPT !.pc = "loop"])
    /\ Tick
    /\ UNCHANGED <<input, outside>>

\* the "-0" test looking one byte further, for the 'e' after the '0'
NegativeZeroBeforeEnd(b, p) == b = M_DASH /\ PeekAt(p, M_0) /\ PeekAt(p + 1, M_END)

\* "-0 not allowed": b is '-' and the byte at cursor p is '0'
NegativeZero(b, p) == b = M_DASH /\ PeekAt(p, M_0)

\* the leading-zero test rejecting only a first '0' followed by '0'
LeadingZeroOnlyBeforeZero(buff, b, p) == buff = <<>> /\ b = M_0 /\ PeekAt(p, M_0)

\* "leading zeros not allowed": a first '0' that is not followed by 'e'
LeadingZero(buff, b, p) == buff = <<>> /\ b = M_0 /\ ~PeekAt(p, M_END)

\* one iteration of the loop; the break runs ascii_bytes_to_int(&buff)
ReadIntLoop ==
    /\ At("read_int", "loop")
    /\ IF ~HasNext THEN pos' = pos /\ Return(Err(BytestreamEnded))
       ELSE LET b == input[pos + 1]
                p == pos + 1
            IN  /\ pos' = p
                /\ IF Top.buff = <<>> /\ b = M_END
                   THEN Return(Err(UnexpectedEndMarker))
                   ELSE IF b = M_END
                   THEN Return(ascii_bytes_to_int(Top.buff))
                   ELSE IF NegativeZero(b, p)
                   THEN Return(Err(IntParseNegativeZero))
                   ELSE IF LeadingZero(Top.buff, b, p)
                   THEN Return(Err(IntParseLeadingZero))
                   ELSE Goto([Top EXCEPT !.buff = Append(@, b)])
    /\ Tick
    /\ UNCHANGED <<input, outside>>

(***************************************************************************)
(* read_string                                                             *)
(***************************************************************************)
\* the empty-string test without len_buff.len() == 0
FirstDigitZeroAnywhere(len_buff, b) == b = M_0

\* "empty string handling": the first length digit is '0'
FirstDigitZero(len_buff, b) == len_buff = <<>> /\ b = M_0

\* one iteration of the length-prefix loop; the break parses the length
ReadStringLen ==
    /\ At("read_string", "len")
    /\ IF ~HasNext THEN pos' = pos /\ Return(Err(BytestreamEnded))
       ELSE LET b == input[pos + 1]
                p == pos + 1
                str_len == ascii_bytes_to_int(Top.buff)
            IN  IF b = M_COLON
                THEN /\ pos' = p
                     /\ IF str_len.k = "Err" THEN Return(str_len)
                        ELSE Goto([Top EXCEPT !.pc = "payload", !.str_len = str_len.v])
                ELSE IF IsDigit(b)
                THEN IF FirstDigitZero(Top.buff, b)
                     THEN IF PeekAt(p, M_COLON)
                          THEN pos' = p + 1 /\ Return(Ok(<<>>))
                          ELSE pos' = p /\ Return(Err(StrParseLeadingZero))
                     ELSE pos' = p /\ Goto([Top EXCEPT !.buff = Append(@, b)])
                ELSE pos' = p /\ Return(Err(StrLenInvalidByte))
    /\ Tick
    /\ UNCHANGED <<input, outside>>

\* i <= str_len
PayloadLoopOffByOne(i, str_len) == ~I64Less(str_len, I64FromNat(i))

\* i < str_len
PayloadLoop(i, str_len) == I64Less(I64FromNat(i), str_len)

\* one test of while i < str_len, and its body
ReadStringPayload ==
    /\ At("read_string", "payload")
    /\ IF PayloadLoop(Top.i, Top.str_len)
       THEN IF HasNext
            THEN /\ pos' = pos + 1
                 /\ Goto([Top EXCEPT !.str_buff = Append(@, input[pos + 1]),
                                     !.i = @ + 1])
            ELSE pos' = pos /\ Return(Err(BytestreamEnded))
       ELSE pos' = pos /\ Return(Ok(Top.str_buff))
    /\ Tick
    /\ UNCHANGED <<input, outside>>

(***************************************************************************)
(* The top-level call has returned.                                        *)
(***************************************************************************)
Done == stack = <<>> /\ ret.k # "None"

\* parse_bytes(&mut v.as_bytes().iter().peekable()) on the value decoded
Reencode ==
    /\ Done
    /\ round = 1
    /\ ret.k = "Ok"
    /\ input' = as_bytes(ret.v)
    /\ pos' = 0
    /\ stack' = <<Frame("parse_bytes", "match")>>
    /\ ret' = Pending
    /\ round' = 2
    /\ decoded' = ret.v
    /\ steps' = 0
    /\ UNCHANGED <<source, cur, other, solo>>

(***************************************************************************)
(* open: fs::read(&path), then parse_bytes on the bytes read.  source is   *)
(* the outcome of the read: Ok with the bytes, or Err with the io error.   *)
(***************************************************************************)
ReadOk(path, b) == [k |-> "Ok", path |-> path, v |-> b, e |-> ""]

ReadErr(path, e) == [k |-> "Err", path |-> path, v |-> <<>>, e |-> e]

\* format!("couldn't read path {}: {}", path, e)
FileReadMessage(path, e) == "couldn't read path " \o path \o ": " \o e

\* open decoding no bytes when the read fails
OpenReadOrEmpty ==
    /\ At("open", "read")
    /\ input' = source.v
    /\ pos' = 0
    /\ Call([Top EXCEPT !.pc = "parse"], Frame("parse_bytes", "match"), 0)
    /\ UNCHANGED <<steps, outside>>

\* match res { Err(e) => Err(FileRead(..)), Ok(b) => parse_bytes(..) }
Open ==
    /\ At("open", "read")
    /\ IF source.k = "Err"
       THEN /\ Return(Err(FileRead(FileReadMessage(source.path, source.e))))
            /\ UNCHANGED <<input, pos>>
       ELSE /\ input' = source.v
            /\ pos' = 0
            /\ Call([Top EXCEPT !.pc = "parse"], Frame("parse_bytes", "match"), 0)
    /\ UNCHANGED <<steps, outside>>

\* the value of the match is the value of open
OpenReturn ==
    /\ At("open", "parse")
    /\ ret.k # "None"
    /\ Return(ret)
    /\ UNCHANGED <<input, pos, steps, outside>>

(***************************************************************************)
(* Two calls of parse_bytes, each on its own input with its own cursor.    *)
(* The call that runs is in input, pos, stack, ret and steps; the call     *)
(* that waits is in other.  First each call runs alone and its result and  *)
(* final cursor are recorded in solo (rounds 3 and 4); then both are       *)
(* started again and their steps are interleaved in any order (round 5).   *)
(***************************************************************************)
Call0(bytes) ==
    [input |-> bytes, pos |-> 0, stack |-> <<Frame("parse_bytes", "match")>>,
     ret |-> Pending, steps |-> 0]

Running == [input |-> input, pos |-> pos, stack |-> stack, ret |-> ret, steps |-> steps]

Finished(call) == call.stack = <<>> /\ call.ret.k # "None"

\* resume call
Resume(call) ==
    /\ input' = call.input
    /\ pos' = call.pos
    /\ stack' = call.stack
    /\ ret' = call.ret
    /\ steps' = call.steps

\* a call that ran alone has returned: record it, then run the other call
\* alone, or start both again
SoloDone ==
    /\ round \in {3, 4}
    /\ Done
    /\ solo' = Append(solo, [ret |-> ret, pos |-> pos])
    /\ Resume(Call0(other.input))
    /\ other' = Call0(input)
    /\ cur' = 3 - cur
    /\ round' = round + 1
    /\ UNCHANGED <<decoded, source>>

\* the scheduler with one cursor for both calls
SwitchSharedCursor ==
    /\ round = 5
    /\ ~Finished(other)
    /\ Resume([other EXCEPT !.pos = pos])
    /\ other' = Running
    /\ cur' = 3 - cur
    /\ UNCHANGED <<round, decoded, source, solo>>

\* the scheduler: the running call waits and the other call runs
Switch ==
    /\ round = 5
    /\ ~Finished(other)
    /\ Resume(other)
    /\ other' = Running
    /\ cur' = 3 - cur
    /\ UNCHANGED <<round, decoded, source, solo>>

(***************************************************************************)
(* Inputs.                                                                 *)
(***************************************************************************)
MaxTok == 6
MaxIntBody == 3
MaxStrInput == 4

\* 'd', 'l', 'e', "1:x"
Tokens == {<<M_DICT>>, <<M_LIST>>, <<M_END>>, <<49, M_COLON, 120>>}

RECURSIVE TokSeqs(_)
TokSeqs(n) ==
    IF n = 0 THEN {<<>>}
    ELSE LET S == TokSeqs(n - 1) IN S \cup {s \o t : s \in S, t \in Tokens}

RECURSIVE ByteSeqs(_, _)
ByteSeqs(A, n) ==
    IF n = 0 THEN {<<>>}
    ELSE LET S == ByteSeqs(A, n - 1) IN S \cup {Append(s, b) : s \in S, b \in A}

\* 'e', '0', '1', '-', '+', 'x', 0xFF
IntBytes == {M_END, M_0, 49, M_DASH, M_PLUS, 120, 255}

\* '0', '1', '2', ':', 'x', 0xFF
StrBytes == {M_0, 49, 50, M_COLON, 120, 255}

\* nothing, "l", "d1:x": where a value is expected
ValueContexts == {<<>>, <<M_LIST>>, <<M_DICT, 49, M_COLON, 120>>}

\* nothing, "d", "d1:x": where a string is read as a value or as a key
StringContexts == {<<>>, <<M_DICT>>, <<M_DICT, 49, M_COLON, 120>>}

IntInputs ==
    {c \o <<M_INT>> \o s : c \in ValueContexts, s \in ByteSeqs(IntBytes, MaxIntBody)}

StrInputs == {c \o s : c \in StringContexts, s \in ByteSeqs(StrBytes, MaxStrInput)}

\* decimal numerals around the i64 limits: 9223372036854775807 with one
\* digit changed, and that with the last digit dropped or a digit added
LimitMags ==
    LET M == {[I64_MAX_MAG EXCEPT ![j] = d] : j \in 1..Len(I64_MAX_MAG), d \in 0..9}
    IN  M \cup {SubSeq(m, 1, Len(m) - 1) : m \in M} \cup {Append(m, 0) : m \in M}

I64Inputs ==
    {<<M_INT>> \o sign \o DigitBytes(m) \o <<M_END>> :
        sign \in {<<>>, <<M_DASH>>}, m \in LimitMags}

\* the values a container of the inputs holds: "", "x", 0, 1, -1, [], {}
SampleLeaves ==
    <<ItemString(<<>>), ItemString(<<120>>), ItemInt(I64(FALSE, <<0>>)),
      ItemInt(I64(FALSE, <<1>>)), ItemInt(I64(TRUE, <<1>>)),
      ItemList(<<>>), ItemDict(<<>>)>>

MaxElems == 2

\* sequences of at most MaxElems indices into SampleLeaves
IdxSeqs == ByteSeqs(1..Len(SampleLeaves), MaxElems)

\* "x", "y"
Keys == {<<120>>, <<121>>}

KeySeqs == ByteSeqs(Keys, MaxElems)

ListOf(s) == ItemList([j \in 1..Len(s) |-> SampleLeaves[s[j]]])

DictOf(ks, s) == ItemDict([j \in 1..Len(s) |-> <<ks[j], SampleLeaves[s[j]]>>])

\* 'l' v1 ... vn 'e'
ListInputs == {as_bytes(ListOf(s)) : s \in IdxSeqs}

\* 'd' k1 v1 ... kn vn 'e'
DictInputs ==
    {as_bytes(DictOf(p[1], p[2])) :
        p \in {q \in KeySeqs \X IdxSeqs : Len(q[1]) = Len(q[2]) /\ Len(q[2]) >= 1}}

\* no file is read: parse_bytes is called on bytes in memory
NoSource == [k |-> "None", path |-> "", v |-> <<>>, e |-> ""]

\* no second call
NoCall == [input |-> <<>>, pos |-> 0, stack |-> <<>>, ret |-> Pending, steps |-> 0]

\* payloads of 1 to 3 bytes, valid or not as UTF-8: U+00E9, U+20AC, a lone
\* lead byte, a lead byte and a non-continuation, an overlong NUL, 0xFF
Utf8Payloads ==
    {<<195, 169>>, <<226, 130, 172>>, <<195>>, <<195, 40>>, <<192, 128>>, <<255>>}

\* a dict whose key is one of the payloads; a second pair with such a key
Utf8Inputs ==
    {c \o <<M_0 + Len(k), M_COLON>> \o k \o v :
        c \in {<<M_DICT>>, <<M_DICT, 49, M_COLON, 120, M_LIST, M_END>>},
        k \in Utf8Payloads,
        v \in {<<>>, <<M_0, M_COLON, M_END>>, <<M_INT, 49, M_END, M_END>>}}

\* "10:" and "12:" with payloads of that many bytes, alone and in a list
LongStrInputs ==
    {c \o <<49, M_0 + n, M_COLON>> \o [j \in 1..(10 + n) |-> 120 + (j % 3)] \o e :
        n \in {0, 2}, c \in {<<>>, <<M_LIST>>}, e \in {<<>>, <<M_END>>}}

Inputs ==
    TokSeqs(MaxTok) \cup IntInputs \cup StrInputs \cup I64Inputs
    \cup ListInputs \cup DictInputs \cup Utf8Inputs \cup LongStrInputs

Init ==
    /\ input \in Inputs
    /\ pos = 0
    /\ stack = <<Frame("parse_bytes", "match")>>
    /\ ret = Pending
    /\ round = 1
    /\ decoded = <<>>
    /\ steps = 0
    /\ source = NoSource
    /\ cur = 1
    /\ other = NoCall
    /\ solo = <<>>

Next ==
    \/ ParseBytes
    \/ ParseBytesReturn
    \/ ReadDictEnter
    \/ ReadDictKey
    \/ ReadDictValue
    \/ ReadListEnter
    \/ ReadListLoop
    \/ ReadListItem
    \/ ReadIntEnter
    \/ ReadIntLoop
    \/ ReadStringLen
    \/ ReadStringPayload
    \/ Reencode

Spec == Init /\ [][Next]_vars

(***************************************************************************)
(* A call of open on a path whose read fails or gives some bytes.          *)
(***************************************************************************)
MaxOpenTok == 3

Paths == {"a.torrent"}

IoErrors ==
    {"No such file or directory (os error 2)", "Permission denied (os error 13)"}

\* token sequences, and "i-1e", "li0ee", "d1:xi1ee"
OpenInputs ==
    TokSeqs(MaxOpenTok)
    \cup {<<M_INT, M_DASH, 49, M_END>>, <<M_LIST, M_INT, M_0, M_END, M_END>>,
          <<M_DICT, 49, M_COLON, 120, M_INT, 49, M_END, M_END>>}

InitOpen ==
    /\ source \in {ReadErr(p, e) : p \in Paths, e \in IoErrors}
                 \cup {ReadOk(p, b) : p \in Paths, b \in OpenInputs}
    /\ input = <<>>
    /\ pos = 0
    /\ stack = <<Frame("open", "read")>>
    /\ ret = Pending
    /\ round = 1
    /\ decoded = <<>>
    /\ steps = 0
    /\ cur = 1
    /\ other = NoCall
    /\ solo = <<>>

NextOpen ==
    \/ Open
    \/ OpenReturn
    \/ ParseBytes
    \/ ParseBytesReturn
    \/ ReadDictEnter
    \/ ReadDictKey
    \/ ReadDictValue
    \/ ReadListEnter
    \/ ReadListLoop
    \/ ReadListItem
    \/ ReadIntEnter
    \/ ReadIntLoop
    \/ ReadStringLen
    \/ ReadStringPayload

SpecOpen == InitOpen /\ [][NextOpen]_vars

(***************************************************************************)
(* Two calls on a pair of inputs.                                          *)
(***************************************************************************)
MaxConcTok == 2

\* complete values: "i1e", "i-1e", "le", "1:x", "0:", "li1ee", "d1:xi1ee"
ConcValues ==
    {<<M_INT, 49, M_END>>, <<M_INT, M_DASH, 49, M_END>>, <<M_LIST, M_END>>,
     <<49, M_COLON, 120>>, <<M_0, M_COLON>>,
     <<M_LIST, M_INT, 49, M_END, M_END>>,
     <<M_DICT, 49, M_COLON, 120, M_INT, 49, M_END, M_END>>}

\* what follows a value: nothing, "e", "ee", "el"
ConcTails == {<<>>, <<M_END>>, <<M_END, M_END>>, <<M_END, M_LIST>>}

\* inputs that fail: "i-0e", "i-01", "i0e", "i00", "i01", "d1:" 0xFF "e",
\* "d1:" 0xFF "l", "2:x", "2:"
ConcErrors ==
    {<<M_INT, M_DASH, M_0, M_END>>, <<M_INT, M_DASH, M_0, 49>>,
     <<M_INT, M_0, M_END>>, <<M_INT, M_0, M_0>>, <<M_INT, M_0, 49>>,
     <<M_DICT, 49, M_COLON, 255, M_END>>, <<M_DICT, 49, M_COLON, 255, M_LIST>>,
     <<50, M_COLON, 120>>, <<50, M_COLON>>}

ConcExtras == {v \o t : v \in ConcValues, t \in ConcTails} \cup ConcErrors

ConcInputs == TokSeqs(MaxConcTok) \cup ConcExtras

InitConc ==
    /\ input \in ConcInputs
    /\ pos = 0
    /\ stack = <<Frame("parse_bytes", "match")>>
    /\ ret = Pending
    /\ round = 3
    /\ decoded = <<>>
    /\ steps = 0
    /\ source = NoSource
    /\ cur = 1
    /\ other \in {Call0(b) : b \in ConcInputs}
    /\ solo = <<>>

NextConc ==
    \/ SoloDone
    \/ Switch
    \/ ParseBytes
    \/ ParseBytesReturn
    \/ ReadDictEnter
    \/ ReadDictKey
    \/ ReadDictValue
    \/ ReadListEnter
    \/ ReadListLoop
    \/ ReadListItem
    \/ ReadIntEnter
    \/ ReadIntLoop
    \/ ReadStringLen
    \/ ReadStringPayload

SpecConc == InitConc /\ [][NextConc]_vars

(***************************************************************************)
(* Vocabulary of the properties.                                           *)
(***************************************************************************)
IsPrefix(p, w) == Len(p) <= Len(w) /\ SubSeq(w, 1, Len(p)) = p

IsProperPrefix(p, w) == Len(p) < Len(w) /\ IsPrefix(p, w)

\* a reader called from parse_bytes has just returned to it
ReaderReturned(arm) ==
    /\ stack # <<>>
    /\ Top.fn = "parse_bytes"
    /\ Top.pc = arm
    /\ ret.k # "None"

\* C1: a decoded value, encoded and decoded again, is that value.
RoundTripIdentity ==
    (Done /\ round = 2) => (ret.k = "Ok" /\ ret.v = decoded)

\* C2: an input decoded with all of it consumed is reproduced byte for
\* byte by encoding the value decoded.
DecodeEncodeIdentity ==
    (Done /\ ret.k = "Ok" /\ pos = Len(input)) => as_bytes(ret.v) = input

\* well-formed encodings: those of a few values of every variant and of
\* containers of them
SampleValues ==
    SampleLeaves
    \o [j \in 1..Len(SampleLeaves) |-> ItemList(<<SampleLeaves[j]>>)]
    \o [j \in 1..Len(SampleLeaves) |-> ItemDict(<< <<(<<120>>), SampleLeaves[j]>> >>)]
    \o [j \in 1..Len(SampleLeaves) |-> ItemList(<<ItemList(<<SampleLeaves[j]>>)>>)]

WellFormed == {as_bytes(SampleValues[j]) : j \in 1..Len(SampleValues)}

\* C3: decoding a proper prefix of a well-formed encoding fails with
\* BytestreamEnded.
TruncatedFailsWithBytestreamEnded ==
    (Done /\ round = 1 /\ \E w \in WellFormed : IsProperPrefix(input, w))
        => ret = Err(BytestreamEnded)

\* C4: when read_dict returns the empty dict, the last byte consumed is the
\* 'e' that follows the 'd'.
EmptyDictConsumesEnd ==
    (ReaderReturned("dict") /\ ret.k = "Ok" /\ Len(ret.v) = 0)
        => (pos = Top.call_pos + 2 /\ input[pos] = M_END)

\* the index of the first 'e' after index j, or 0
FirstEnd(j) ==
    IF \E k \in (j + 1)..Len(input) : input[k] = M_END
    THEN CHOOSE k \in (j + 1)..Len(input) :
             input[k] = M_END /\ \A m \in (j + 1)..(k - 1) : input[m] # M_END
    ELSE 0

\* the index of the first byte after index j that is no digit, or 0
FirstNonDigit(j) ==
    IF \E k \in (j + 1)..Len(input) : ~IsDigit(input[k])
    THEN CHOOSE k \in (j + 1)..Len(input) :
             ~IsDigit(input[k]) /\ \A m \in (j + 1)..(k - 1) : IsDigit(input[m])
    ELSE 0

AllDigits(s) == \A j \in 1..Len(s) : IsDigit(s[j])

\* "0", or an optional '-', a digit 1-9 and then digits
CanonicalInt(body) ==
    \/ body = <<M_0>>
    \/ LET d == IF body # <<>> /\ Head(body) = M_DASH THEN Tail(body) ELSE body
       IN  d # <<>> /\ AllDigits(d) /\ d[1] # M_0

MalformedIntegerKinds ==
    {"IntParseLeadingZero", "IntParseNegativeZero", "IntParseInt", "IntParseAscii"}

\* C5: the integer reader returns Ok only for a canonical body, and fails
\* with a MalformedInteger kind for every other non-empty body.
StrictIntegerGrammar ==
    ReaderReturned("int") =>
        LET e == FirstEnd(Top.call_pos + 1)
            body == SubSeq(input, Top.call_pos + 2, e - 1)
        IN  (e # 0 /\ body # <<>> /\ ~CanonicalInt(body))
                => (ret.k = "Err" /\ ret.e.kind \in MalformedIntegerKinds)

\* a '-' at index j with a '0' after it
DashZeroAt(j) == j < Len(input) /\ input[j] = M_DASH /\ input[j + 1] = M_0

\* C6: "ie" fails with UnexpectedEndMarker; the first '-' followed by '0'
\* fails with IntParseNegativeZero and a first '0' followed by a digit with
\* IntParseLeadingZero, each with the cursor after the offending byte and
\* the byte after it not consumed; "i0e" is Int(0).
IntegerReaderOutcomes ==
    ReaderReturned("int") =>
        LET s == Top.call_pos
        IN  /\ PeekAt(s + 1, M_END)
                => (ret = Err(UnexpectedEndMarker) /\ pos = s + 2)
            /\ \A j \in (s + 2)..Len(input) :
                (/\ DashZeroAt(j)
                 /\ input[s + 2] # M_0
                 /\ \A m \in (s + 2)..(j - 1) : input[m] # M_END /\ ~DashZeroAt(m))
                    => (ret = Err(IntParseNegativeZero) /\ pos = j)
            /\ (PeekAt(s + 1, M_0) /\ s + 2 < Len(input) /\ IsDigit(input[s + 3]))
                => (ret = Err(IntParseLeadingZero) /\ pos = s + 2)
            /\ (PeekAt(s + 1, M_0) /\ PeekAt(s + 2, M_END))
                => (ret.k = "Ok" /\ ret.v = I64(FALSE, <<0>>) /\ pos = s + 3)

IntegerReaderOutcomesWitness ==
    /\ ReaderReturned("int")
    /\ ret = Err(IntParseNegativeZero)
    /\ pos > Top.call_pos + 2
    /\ Top.call_pos > 0

\* C7: "i" n "e" for a canonical decimal n decodes to Int(n) when n is in
\* [-2^63, 2^63 - 1] and fails with IntParseInt otherwise.
IntegerRange ==
    (Done /\ Len(input) >= 3 /\ input[1] = M_INT /\ FirstEnd(1) = Len(input)
          /\ CanonicalInt(SubSeq(input, 2, Len(input) - 1)))
        => LET body == SubSeq(input, 2, Len(input) - 1)
               neg == Head(body) = M_DASH
               digits == IF neg THEN Tail(body) ELSE body
               mag == [j \in 1..Len(digits) |-> digits[j] - M_0]
           IN  IF MagLess(IF neg THEN I64_MIN_MAG ELSE I64_MAX_MAG, mag)
               THEN ret.k = "Err" /\ ret.e.kind = "IntParseInt"
               ELSE /\ ret.k = "Ok"
                    /\ ret.v.t = "Int"
                    /\ ret.v.v = [neg |-> neg, mag |-> mag]
                    /\ pos = Len(input)

IntegerRangeWitness ==
    /\ Done
    /\ round = 1
    /\ ret.k = "Ok"
    /\ ret.v.t = "Int"
    /\ ret.v.v = [neg |-> TRUE, mag |-> I64_MIN_MAG]

\* read_string has just returned, to parse_bytes or to read_dict
StringReturned ==
    /\ stack # <<>>
    /\ ret.k # "None"
    /\ \/ Top.fn = "parse_bytes" /\ Top.pc = "string"
       \/ Top.fn = "read_dict" /\ Top.pc = "key"

RECURSIVE DecValue(_)
DecValue(s) == IF s = <<>> THEN 0 ELSE 10 * DecValue(SubSeq(s, 1, Len(s) - 1)) + (s[Len(s)] - M_0)

\* C8: read_string returns Ok only with exactly the n bytes after the ':'
\* and the cursor after them, n being the length prefix; with fewer than n
\* bytes after the ':' it fails with BytestreamEnded.
StringPayloadLength ==
    StringReturned =>
        LET s == Top.call_pos
            c == FirstNonDigit(s)
            prefix == SubSeq(input, s + 1, c - 1)
            n == DecValue(prefix)
        IN  /\ ret.k = "Ok"
                => /\ c # 0 /\ input[c] = M_COLON /\ prefix # <<>>
                   /\ Len(ret.v) = n
                   /\ ret.v = SubSeq(input, c + 1, c + n)
                   /\ pos = c + n
            /\ (/\ c # 0 /\ input[c] = M_COLON /\ prefix # <<>>
                /\ (prefix[1] # M_0 \/ Len(prefix) = 1)
                /\ Len(input) - c < n)
                => ret = Err(BytestreamEnded)

StringPayloadLengthWitness ==
    /\ StringReturned
    /\ ret.k = "Ok"
    /\ Len(ret.v) = 2
    /\ ret.v[2] = 255

DispatchRule ==
    (\/ Done
     \/ /\ stack # <<>> /\ ret.k # "None"
        /\ \/ Top.fn = "read_dict" /\ Top.pc = "value"
           \/ Top.fn = "read_list" /\ Top.pc = "item")
        => LET cp == IF stack = <<>> THEN 0 ELSE Top.call_pos
           IN  IF cp >= Len(input)
               THEN ret = Err(BytestreamEnded) /\ pos = cp
               ELSE LET b == input[cp + 1]
                    IN  /\ b = M_END => (ret = Err(UnexpectedEndMarker) /\ pos = cp)
                        /\ (b \notin {M_DICT, M_INT, M_LIST, M_END} /\ ~IsDigit(b))
                            => (ret = Err(UnrecognizedByte(b)) /\ pos = cp)

DispatchRuleWitness ==
    /\ stack # <<>>
    /\ Top.fn = "read_dict"
    /\ Top.pc = "value"
    /\ ret = Err(UnexpectedEndMarker)
    /\ pos = Top.call_pos

\* the concatenation of the sequences of f, in order
RECURSIVE Concat(_)
Concat(f) ==
    IF Len(f) = 0 THEN <<>> ELSE f[1] \o Concat(SubSeq(f, 2, Len(f)))

\* C11: decoding 'd' k1 v1 ... kn vn 'e' (n >= 1) returns the Dict of
\* exactly the pairs (ki, vi) in wire order, repeated keys kept; and the
\* encoding of a Dict is 'd', its pairs in the stored order, 'e'.
DictOrderAndDuplicates ==
    /\ (Done /\ round = 1) =>
          \A ks \in KeySeqs : \A s \in IdxSeqs :
              (Len(s) = Len(ks) /\ Len(s) >= 1 /\ input = as_bytes(DictOf(ks, s)))
              => (ret.k = "Ok" /\ ret.v.t = "Dict" /\ ret.v = DictOf(ks, s))
    /\ (round = 2 /\ decoded.t = "Dict") =>
          input = <<M_DICT>>
                  \o Concat([j \in 1..Len(decoded.v) |->
                                encode_string(decoded.v[j][1])
                                \o as_bytes(decoded.v[j][2])])
                  \o <<M_END>>

RECURSIVE AllKeysText(_)
\* every key of every Dict in item is valid UTF-8
AllKeysText(item) ==
    IF item.t = "Dict"
    THEN \A j \in 1..Len(item.v) :
            Utf8Valid(item.v[j][1]) /\ AllKeysText(item.v[j][2])
    ELSE IF item.t = "List"
    THEN \A j \in 1..Len(item.v) : AllKeysText(item.v[j])
    ELSE TRUE

\* the input is 'd', a one-digit length n >= 1, ':' and n bytes that are not
\* valid UTF-8
FirstKeyNotText(n) ==
    /\ Len(input) >= 3 + n
    /\ input[1] = M_DICT /\ input[2] = M_0 + n /\ input[3] = M_COLON
    /\ ~Utf8Valid(SubSeq(input, 4, 3 + n))

\* C12: every key of every Dict in a returned value is valid UTF-8 and is
\* the payload bytes of the key on the wire; a key that is not valid UTF-8
\* makes read_dict return DictKeyParse at once, the cursor staying just
\* after the key payload, and that is the result of the decode.
DictKeysAreText ==
    /\ []((Done /\ ret.k = "Ok") => AllKeysText(ret.v))
    /\ [](At("read_dict", "value") =>
            /\ Utf8Valid(Top.key)
            /\ Top.call_pos >= Len(Top.key)
            /\ Top.key = SubSeq(input, Top.call_pos - Len(Top.key) + 1, Top.call_pos))
    /\ [][(At("read_dict", "key") /\ ret.k = "Ok" /\ ~Utf8Valid(ret.v))
            => (ret' = Err(DictKeyParse) /\ pos' = pos /\ stack' = Caller)]_vars
    /\ []((Done /\ round = 1) =>
            \A n \in 1..3 : FirstKeyNotText(n)
                => (ret = Err(DictKeyParse) /\ pos = 3 + n))
    /\ []((Done /\ ret = Err(DictKeyParse)) =>
            \E n \in 1..pos :
                /\ pos - n >= 1 /\ input[pos - n] = M_COLON
                /\ ~Utf8Valid(SubSeq(input, pos - n + 1, pos)))

\* a decode has failed on a key that is not text, with bytes left unread
DictKeysAreTextWitness ==
    /\ Done /\ ret = Err(DictKeyParse)
    /\ pos < Len(input)
    /\ \E n \in 2..3 : FirstKeyNotText(n)

\* the error kinds of BencodeError
ErrorKinds ==
    {"FileRead", "UnrecognizedByte", "UnexpectedEndMarker", "BytestreamEnded",
     "IntParseAscii", "IntParseInt", "IntParseLeadingZero", "IntParseNegativeZero",
     "StrParseLeadingZero", "StrLenInvalidByte", "StrParse", "DictKeyParse"}

\* the running call stands where one of the decoder's steps applies: at a
\* match, a loop test or a consuming step, or at a pending call whose callee
\* has returned
CanStep ==
    /\ stack # <<>>
    /\ \/ Top.fn = "parse_bytes" /\ Top.pc = "match" /\ ret.k = "None"
       \/ Top.fn = "parse_bytes" /\ Top.pc \in {"dict", "int", "list", "string"}
          /\ ret.k # "None"
       \/ Top.fn = "read_dict" /\ Top.pc = "enter" /\ PeekIs(M_DICT)
       \/ Top.fn = "read_dict" /\ Top.pc \in {"key", "value"} /\ ret.k # "None"
       \/ Top.fn = "read_list" /\ Top.pc = "enter" /\ PeekIs(M_LIST)
       \/ Top.fn = "read_list" /\ Top.pc = "loop" /\ ret.k = "None"
       \/ Top.fn = "read_list" /\ Top.pc = "item" /\ ret.k # "None"
       \/ Top.fn = "read_int" /\ Top.pc = "enter" /\ PeekIs(M_INT)
       \/ Top.fn = "read_int" /\ Top.pc = "loop" /\ ret.k = "None"
       \/ Top.fn = "read_string" /\ Top.pc \in {"len", "payload"} /\ ret.k = "None"

\* C13: a decode in progress always has a next step (none reads a byte that
\* is not there) until the top-level call has returned; it returns either Ok
\* with a value and no error or Err with an error and no value; and once a
\* reader has returned an error every step only returns that same error to
\* the caller, consuming no byte.
DecodeAllOrNothing ==
    /\ [](Done \/ CanStep)
    /\ [](Done =>
            \/ ret.k = "Ok" /\ ret.e = NoError /\ ret.v.t \in {"String", "Int", "List", "Dict"}
            \/ ret.k = "Err" /\ ret.v = <<>> /\ ret.e.kind \in ErrorKinds)
    /\ [][ret.k = "Err" => (ret' = ret /\ pos' = pos /\ stack' = Caller)]_vars

\* an error is on its way up from a reader three calls deep, bytes unread
DecodeAllOrNothingWitness ==
    /\ ret.k = "Err"
    /\ Len(stack) >= 3
    /\ pos < Len(input)
    /\ Len(Top.res) >= 1

\* w is a length in decimal (no sign, no leading zero), ':' and the bytes s
StringFormat(s, w) ==
    LET plen == Len(w) - Len(s) - 1
        prefix == SubSeq(w, 1, plen)
    IN  /\ plen >= 1
        /\ AllDigits(prefix)
        /\ (plen > 1 => prefix[1] # M_0)
        /\ DecValue(prefix) = Len(s)
        /\ w[plen + 1] = M_COLON
        /\ SubSeq(w, plen + 2, Len(w)) = s

\* w is 'i', the decimal text of i ('-' exactly when i is negative, no
\* leading zero) and 'e'
IntFormat(i, w) ==
    LET body == SubSeq(w, 2, Len(w) - 1)
        digits == IF i.neg THEN Tail(body) ELSE body
    IN  /\ Len(w) >= 3
        /\ w[1] = M_INT /\ w[Len(w)] = M_END
        /\ CanonicalInt(body)
        /\ (body[1] = M_DASH) = i.neg
        /\ AllDigits(digits)
        /\ [j \in 1..Len(digits) |-> digits[j] - M_0] = i.mag

RECURSIVE EncodingOf(_)
\* the output of as_bytes for item, and for every value in it, has the
\* format of the variant
EncodingOf(item) ==
    LET w == as_bytes(item)
    IN  IF item.t = "String" THEN StringFormat(item.v, w)
        ELSE IF item.t = "Int" THEN IntFormat(item.v, w)
        ELSE IF item.t = "List"
        THEN /\ w = <<M_LIST>>
                    \o Concat([j \in 1..Len(item.v) |-> as_bytes(item.v[j])])
                    \o <<M_END>>
             /\ \A j \in 1..Len(item.v) : EncodingOf(item.v[j])
        ELSE /\ item.t = "Dict"
             /\ w = <<M_DICT>>
                    \o Concat([j \in 1..Len(item.v) |->
                                  as_bytes(ItemString(item.v[j][1]))
                                  \o as_bytes(item.v[j][2])])
                    \o <<M_END>>
             /\ \A j \in 1..Len(item.v) :
                    /\ StringFormat(item.v[j][1], as_bytes(ItemString(item.v[j][1])))
                    /\ EncodingOf(item.v[j][2])

\* C14: the bytes as_bytes produces for a value are, for a String, its
\* length in decimal, ':' and its bytes; for an Int, 'i', its signed decimal
\* text and 'e'; for a List, 'l', the encodings of its elements in order and
\* 'e'; for a Dict, 'd', each pair's key as a byte string followed by the
\* encoding of its value, in the stored order, and 'e'.
EncoderOutputFormat ==
    round = 2 => (input = as_bytes(decoded) /\ EncodingOf(decoded))

\* the encoder has run on a dict of a string and a negative integer
EncoderOutputFormatWitness ==
    /\ round = 2
    /\ decoded.t = "Dict" /\ Len(decoded.v) = 2
    /\ decoded.v[1][2].t = "String" /\ decoded.v[1][2].v # <<>>
    /\ decoded.v[2][2].t = "Int" /\ decoded.v[2][2].v.neg

\* C15: open returns Err(FileRead(message)) exactly when the read fails, and
\* then no frame of the decoder is ever on the stack and no step of it is
\* taken; when the read succeeds the decoder is called on the bytes read
\* with the cursor before the first byte, and what it returns is returned
\* by open unchanged.
OpenBoundary ==
    /\ [](source.k = "Err" =>
            /\ \A j \in 1..Len(stack) : stack[j].fn = "open"
            /\ steps = 0 /\ pos = 0)
    /\ [](Done =>
            /\ (ret.k = "Err" /\ ret.e.kind = "FileRead") = (source.k = "Err")
            /\ source.k = "Err" =>
                   ret = Err(FileRead(FileReadMessage(source.path, source.e))))
    /\ []((source.k = "Ok" /\ Len(stack) >= 2) =>
            /\ input = source.v
            /\ stack[1].fn = "open" /\ stack[1].call_pos = 0
            /\ stack[2].fn = "parse_bytes"
            /\ (steps = 0 => pos = 0))
    /\ [][(At("open", "parse") /\ ret.k # "None")
            => (ret' = ret /\ pos' = pos /\ stack' = <<>>)]_vars

\* open has returned the error of a failed read
OpenBoundaryWitness ==
    /\ Done
    /\ source.k = "Err"
    /\ ret.k = "Err" /\ ret.e.kind = "FileRead"

\* result r and cursor p are those recorded for call c when it ran alone
SameAsAlone(c, r, p) ==
    /\ p = solo[c].pos
    /\ r.k = solo[c].ret.k
    /\ r.e = solo[c].ret.e
    /\ r = solo[c].ret

\* C16: of two calls, each with its own cursor over its own input, whose
\* steps are interleaved in any order, each returns the result and leaves
\* its cursor where it does when it runs alone.
NoInterference ==
    round = 5 =>
        /\ Done => SameAsAlone(cur, ret, pos)
        /\ Finished(other) => SameAsAlone(3 - cur, other.ret, other.pos)

\* both calls have returned, different results, after the steps of the one
\* were taken between steps of the other
NoInterferenceWitness ==
    /\ round = 5
    /\ Done /\ Finished(other)
    /\ ret.k = "Ok" /\ other.ret.k = "Err"
    /\ pos >= 2 /\ other.pos >= 2
    /\ cur = 1

InputOf(c) == IF c = cur THEN input ELSE other.input

\* the first n bytes of w, or all of w if it has fewer
Take(w, n) == SubSeq(w, 1, IF n <= Len(w) THEN n ELSE Len(w))

\* v and w have the same first n bytes and, after them, the same next byte
\* or both none
AgreeUpToNext(v, w, n) == Take(v, n + 1) = Take(w, n + 1)

\* C18: a step of a decode never moves its cursor back (no byte is consumed
\* twice), and a decode has inspected only the bytes it consumed and the
\* one after them: two inputs that agree on these give the same result and
\* the same final cursor.
OneByteLookahead ==
    /\ [][(cur' = cur /\ round' = round) => pos' >= pos]_vars
    /\ [](round = 5 =>
            \A c \in {1, 2} :
                AgreeUpToNext(InputOf(c), InputOf(3 - c), solo[c].pos)
                => /\ solo[3 - c].pos = solo[c].pos
                   /\ solo[3 - c].ret.k = solo[c].ret.k
                   /\ solo[3 - c].ret.e = solo[c].ret.e
                   /\ solo[3 - c].ret = solo[c].ret)

\* two inputs that differ only after the byte that follows the consumed
\* ones, four bytes or more consumed
OneByteLookaheadWitness ==
    /\ round = 5
    /\ input # other.input
    /\ solo[cur].pos >= 4
    /\ Len(input) >= solo[cur].pos + 2
    /\ Len(other.input) >= solo[cur].pos + 2
    /\ AgreeUpToNext(input, other.input, solo[cur].pos)

\* a call of parse_bytes has returned, to the top level or into a dict or a
\* list
ParseBytesReturned ==
    /\ ret.k # "None"
    /\ \/ stack = <<>>
       \/ At("read_dict", "value")
       \/ At("read_list", "item")

\* C19: when parse_bytes returns Ok(v) the bytes it consumed, from where
\* the cursor stood at the call to where it stands now, are the encoding of
\* v: the cursor is just after the last byte of the construct.
CursorAfterSuccess ==
    (ParseBytesReturned /\ ret.k = "Ok") =>
        LET cp == IF stack = <<>> THEN 0 ELSE Top.call_pos
        IN  SubSeq(input, cp + 1, pos) = as_bytes(ret.v)

\* this step returns to the caller
Returns == stack' = Caller /\ ret'.k # "None"

\* C20: a decode returns after a number of steps bounded by the length of
\* its input: it always has a next step until it has returned, it takes at
\* most five steps for each byte of the input (a match, a consuming step and
\* a loop test on the way in, two returns on the way out) and five more,
\* every iteration of the loops of read_int and read_string consumes a byte
\* or returns, every iteration of the loops of read_list and read_dict
\* returns or calls a reader that consumes a byte or fails, and every call
\* of parse_bytes that returns Ok has consumed at least one byte.
DecodeTerminates ==
    /\ []((Done \/ CanStep) /\ steps <= 5 * (Len(input) + 1))
    /\ [][(At("read_int", "loop") \/ At("read_string", "len")
            \/ At("read_string", "payload")) => (pos' > pos \/ Returns)]_vars
    /\ [][At("read_list", "loop") =>
            (Returns \/ (pos' = pos /\ HasNext /\ Len(stack') = Len(stack) + 1))]_vars
    /\ []((ret.k = "Ok" /\ (At("read_list", "item") \/ At("read_dict", "key")
                             \/ At("read_dict", "value")))
            => pos > Top.call_pos)
    /\ []((ParseBytesReturned /\ ret.k = "Ok") =>
            pos > (IF stack = <<>> THEN 0 ELSE Top.call_pos))

\* a decode of eight bytes or more has returned a list of three elements
\* after more than two steps for each byte
DecodeTerminatesWitness ==
    /\ Done /\ round = 1
    /\ ret.k = "Ok" /\ ret.v.t = "List" /\ Len(ret.v.v) >= 3
    /\ Len(input) >= 8
    /\ steps > 2 * Len(input)

\* C21: every error read_string returns, reading a value or a dict key, is
\* BytestreamEnded, StrLenInvalidByte or StrParseLeadingZero.
StringReaderErrorKinds ==
    (StringReturned /\ ret.k = "Err") =>
        ret.e.kind \in {"BytestreamEnded", "StrLenInvalidByte", "StrParseLeadingZero"}
================================================================================
